---- MODULE Spec2Model ----
(***************************************************************************)
(* shoelace-style/localize: the translation registry, the locale matcher,  *)
(* the locale signal and the update broadcaster.                           *)
(*                                                                         *)
(* The source tree holds four revisions of the core, and every one of them *)
(* is modelled; `revision` says which one a behaviour runs:                *)
(*   "localize"  src/src/localize.ts        translate / forceUpdate, a Map *)
(*               of connected elements with a cached language              *)
(*   "index"     src/src/index.ts           term / update, a Set of        *)
(*               connected elements                                        *)
(*   "updaters"  src/README.md:859-1051     term / update, a Set of        *)
(*               updater closures, one per controller                      *)
(*   "core"      src/README.md:329-534      merge on register, Intl.Locale *)
(*               parsing, exists()                                         *)
(*                                                                         *)
(* Strings that the code converts (locale tags, codes, directions) are     *)
(* sequences of one-character strings, so that toLowerCase, slice, replace *)
(* and the Intl.Locale parse are computed, not assumed.                    *)
(***************************************************************************)
EXTENDS Integers, Sequences, FiniteSets, TLC

VARIABLES
    revision,               \* which revision of the core this behaviour runs
    translations,           \* Map<string, Translation>: lowercased code -> translation
    fallback,               \* <<>> (undefined) or <<t>>
    htmlLang,               \* document.documentElement.lang   (<<>> when absent)
    htmlDir,                \* document.documentElement.dir    (<<>> when absent)
    hostLang,               \* element -> its lang attribute (<<>> when absent)
    hostDir,                \* element -> its dir attribute (<<>> when absent)
    documentLanguage,       \* cached ambient locale
    documentDirection,      \* cached ambient direction
    observerPending,        \* the MutationObserver holds undelivered records
    recordsQueued,          \* how many records it holds (bounded by MaxRecords)
    controllers,            \* element -> number of LocalizeController instances bound to it
    requestUpdateIsFunction,\* element -> typeof el.requestUpdate === 'function'
    requestUpdateThrows,    \* element -> a call of el.requestUpdate() raises
    framework,              \* element -> "lit" or "fast": the decorator of localize.ts that wraps it
    detached,               \* element -> it was attached and has signalled "disconnected" since
    attached,               \* element -> its last lifecycle signal was "connected"
    connectedElements,      \* Set<HTMLElement> in insertion order (index, core)
    connectedElementsMap,   \* Map<HTMLElement, string> in insertion order (localize)
    elementUpdaters,        \* Set<() => void> in insertion order (updaters)
    updateCount,            \* element -> requestUpdate() invocations made by the last operation
    lastOp,                 \* the operation that produced this state, with its inputs and result
    regsLeft                \* translations that may still be registered (bound)

vars == <<revision, translations, fallback, htmlLang, htmlDir, hostLang, hostDir, documentLanguage,
          documentDirection, observerPending, recordsQueued, controllers,
          requestUpdateIsFunction, requestUpdateThrows, framework, detached,
          attached, connectedElements, connectedElementsMap, elementUpdaters,
          updateCount, lastOp, regsLeft>>

----------------------------------------------------------------------------
\* Bounds

MaxRegs == 3
MaxArgs == 2
MaxBroadcastRegs == 1
MaxControllers == 2
MaxRecords == 2

Revisions == {"localize", "index", "updaters", "core"}
\* The updaters revision registers and looks up exactly as index.ts does
LookupRevisions == {"localize", "index", "core"}
Elements == {"e1", "e2"}

----------------------------------------------------------------------------
\* Strings

UpperToLower ==
    ("A" :> "a") @@ ("B" :> "b") @@ ("C" :> "c") @@ ("D" :> "d") @@ ("E" :> "e") @@
    ("F" :> "f") @@ ("G" :> "g") @@ ("H" :> "h") @@ ("I" :> "i") @@ ("J" :> "j") @@
    ("K" :> "k") @@ ("L" :> "l") @@ ("M" :> "m") @@ ("N" :> "n") @@ ("O" :> "o") @@
    ("P" :> "p") @@ ("Q" :> "q") @@ ("R" :> "r") @@ ("S" :> "s") @@ ("T" :> "t") @@
    ("U" :> "u") @@ ("V" :> "v") @@ ("W" :> "w") @@ ("X" :> "x") @@ ("Y" :> "y") @@
    ("Z" :> "z")

UpperLetters == DOMAIN UpperToLower
LowerLetters == {UpperToLower[c] : c \in UpperLetters}
Digits == {"0", "1", "2", "3", "4", "5", "6", "7", "8", "9"}

Min(a, b) == IF a < b THEN a ELSE b

toLowerCase(s) ==
    [i \in 1..Len(s) |-> IF s[i] \in UpperLetters THEN UpperToLower[s[i]] ELSE s[i]]

toUpperCase(s) ==
    [i \in 1..Len(s) |->
        IF s[i] \in LowerLetters
        THEN CHOOSE c \in UpperLetters : UpperToLower[c] = s[i]
        ELSE s[i]]

\* s.slice(0, 2)
slice02(s) == SubSeq(s, 1, Min(2, Len(s)))

\* s.replace(/_/g, '-')
replaceUnderscores(s) == [i \in 1..Len(s) |-> IF s[i] = "_" THEN "-" ELSE s[i]]

\* s.split('-')
RECURSIVE Subtags(_)
Subtags(s) ==
    IF \E i \in 1..Len(s) : s[i] = "-"
    THEN LET i == CHOOSE i \in 1..Len(s) : s[i] = "-" /\ \A j \in 1..(i - 1) : s[j] # "-"
         IN  <<SubSeq(s, 1, i - 1)>> \o Subtags(SubSeq(s, i + 1, Len(s)))
    ELSE <<s>>

IsAlpha(s) == \A i \in 1..Len(s) : s[i] \in UpperLetters \cup LowerLetters
IsDigit(s) == \A i \in 1..Len(s) : s[i] \in Digits
IsAlnum(s) == \A i \in 1..Len(s) : s[i] \in UpperLetters \cup LowerLetters \cup Digits

\* unicode_language_subtag, unicode_script_subtag, unicode_region_subtag,
\* unicode_variant_subtag of UTS 35
IsLanguageSubtag(s) == IsAlpha(s) /\ Len(s) \in {2, 3, 5, 6, 7, 8}
IsScriptSubtag(s) == IsAlpha(s) /\ Len(s) = 4
IsRegionSubtag(s) == (IsAlpha(s) /\ Len(s) = 2) \/ (IsDigit(s) /\ Len(s) = 3)
IsVariantSubtag(s) ==
    \/ IsAlnum(s) /\ Len(s) \in 5..8
    \/ IsAlnum(s) /\ Len(s) = 4 /\ s[1] \in Digits

(***************************************************************************)
(* new Intl.Locale(tag): the tag must be language[-script][-region]        *)
(* (-variant)*, or the constructor throws a RangeError.  The locale is     *)
(* canonical: language in lower case, region in upper case.  Extension and *)
(* private-use subtags and CLDR aliases are outside the tags modelled.     *)
(***************************************************************************)
IntlLocale(tag) ==
    LET parts == Subtags(tag)
        rest1 == Tail(parts)
        hasScript == rest1 # <<>> /\ IsScriptSubtag(rest1[1])
        rest2 == IF hasScript THEN Tail(rest1) ELSE rest1
        hasRegion == rest2 # <<>> /\ IsRegionSubtag(rest2[1])
        rest3 == IF hasRegion THEN Tail(rest2) ELSE rest2
        ok == /\ IsLanguageSubtag(parts[1])
              /\ \A i \in 1..Len(rest3) : IsVariantSubtag(rest3[i])
    IN  IF ok
        THEN [ok |-> TRUE,
              language |-> toLowerCase(parts[1]),
              hasRegion |-> hasRegion,
              region |-> IF hasRegion THEN toUpperCase(rest2[1]) ELSE <<>>]
        ELSE [ok |-> FALSE, language |-> <<>>, hasRegion |-> FALSE, region |-> <<>>]

----------------------------------------------------------------------------
\* Locale tags and translations drawn as inputs

S_en == <<"e", "n">>
S_en_GB == <<"e", "n", "-", "G", "B">>
S_en_GB_underscore == <<"e", "n", "_", "G", "B">>
S_EN_GB == <<"E", "N", "-", "G", "B">>
S_es == <<"e", "s">>
S_es_MX == <<"e", "s", "-", "M", "X">>
S_de == <<"d", "e">>
S_fi == <<"f", "i">>
S_fil == <<"f", "i", "l">>
S_fil_PH == <<"f", "i", "l", "-", "P", "H">>
S_zh_CN == <<"z", "h", "-", "C", "N">>
S_zh_Hans_CN == <<"z", "h", "-", "H", "a", "n", "s", "-", "C", "N">>
S_e == <<"e">>
S_en_US == <<"e", "n", "-", "U", "S">>
S_RTL == <<"R", "T", "L">>
S_ltr == <<"l", "t", "r">>
S_rtl == <<"r", "t", "l">>

\* The tags a lookup is made with: bare, regional, with an underscore, in upper
\* case, with a three-letter language, with a script, and one that is no locale tag.
LocaleTags ==
    {S_en, S_en_GB, S_en_GB_underscore, S_EN_GB, S_es_MX, S_de, S_fil_PH,
     S_zh_Hans_CN, S_e}

Keys == {"greet", "bye"}

\* A term is a literal string or a formatting function; `text` is the literal, or
\* what the function returns.
Literal(text) == [kind |-> "string", text |-> text]

\* The formatting function (...args) => text + args.join('')
Formatter(text) == [kind |-> "function", text |-> text]

\* interface Translation { $code; $name; $dir; [key: string]: any }
Translation(code, terms) == [code |-> code, terms |-> terms]

Catalogue ==
    { Translation(S_en, ("greet" :> Literal("Hi"))),
      Translation(S_en, ("bye" :> Literal("Bye"))),
      Translation(S_en_GB, ("greet" :> Literal("Hiya")) @@ ("bye" :> Literal(""))),
      Translation(S_EN_GB, ("bye" :> Literal("Cheerio"))),
      Translation(S_es, ("greet" :> Literal("Hola")) @@ ("bye" :> Literal(""))),
      Translation(S_fi, ("greet" :> Literal("Hei"))),
      Translation(S_fil, ("greet" :> Literal("Kumusta"))),
      Translation(S_zh_CN, ("greet" :> Literal("Nihao"))) }

\* The argument lists of one registerTranslation(...translation) call
ArgLists(n) == UNION {[1..k -> Catalogue] : k \in 0..n}

\* navigator.language
NavigatorLanguage == S_en_US

----------------------------------------------------------------------------
\* Translation registry

\* translations.get(code): <<>> is undefined
Get(map, code) == IF code \in DOMAIN map THEN <<map[code]>> ELSE <<>>

\* A set() that drops every other entry
Set_only(map, code, t) == (code :> t)

\* translations.set(code, t)
Set_(map, code, t) == (code :> t) @@ map

\* { ...a, ...b }
Spread(a, b) == [code |-> b.code, terms |-> b.terms @@ a.terms]

\* A registration that always takes the fallback: fallback = t without the test
setFallback_lastWins(fb, t) == <<t>>

\* if (!fallback) { fallback = t; }
setFallback(fb, t) == IF fb = <<>> THEN <<t>> ELSE fb

\* A registration that keys the entry by the code as written
registerOne_asWritten(map, t) == Set_(map, t.code, t)

\* The body of translation.map(t => ...) in localize.ts, index.ts and the
\* updaters revision: the entry is replaced.
registerOne_index(map, t) == Set_(map, toLowerCase(t.code), t)

\* The body of translation.map(t => ...) in the core revision: translations that
\* share a code are merged.
registerOne_core(map, t) ==
    LET code == toLowerCase(t.code)
    IN  IF code \in DOMAIN map
        THEN Set_(map, code, Spread(map[code], t))
        ELSE Set_(map, code, t)

registerOne(rev, map, t) ==
    IF rev = "core" THEN registerOne_core(map, t) ELSE registerOne_index(map, t)

\* translation.map(t => { ... }): the registry and the fallback after the loop
RECURSIVE registerAll(_, _, _, _)
registerAll(rev, map, fb, ts) ==
    IF ts = <<>>
    THEN [translations |-> map, fallback |-> fb]
    ELSE registerAll(rev, registerOne(rev, map, Head(ts)), setFallback(fb, Head(ts)), Tail(ts))

----------------------------------------------------------------------------
\* Locale matcher

\* primary[key] as a condition
Truthy(v) == v.kind = "function" \/ v.text # ""

\* entry && entry[key]
HasTerm(entry, key) ==
    /\ entry # <<>>
    /\ key \in DOMAIN entry[1].terms
    /\ Truthy(entry[1].terms[key])

\* typeof term === 'function' ? term(...args) : term
RECURSIVE join(_)
join(args) == IF args = <<>> THEN "" ELSE Head(args) \o join(Tail(args))

\* A dispatch that never calls the term
Apply_literal(v, args) == [value |-> v.text, calls |-> <<>>]

\* The return value, and the argument lists the formatting function was called with
Apply(v, args) ==
    IF v.kind = "function"
    THEN [value |-> v.text \o join(args), calls |-> <<args>>]
    ELSE [value |-> v.text, calls |-> <<>>]

Returned(value, tier) ==
    [outcome |-> "return", value |-> value, tier |-> tier, diagnostic |-> FALSE, error |-> "",
     calls |-> <<>>]
Thrown(error) ==
    [outcome |-> "throw", value |-> "", tier |-> "none", diagnostic |-> FALSE, error |-> error,
     calls |-> <<>>]

\* if primary ... else if secondary ... else if fallback ...: <<tier, term>> or <<>>
FindTerm(primary, secondary, fb, key) ==
    IF HasTerm(primary, key) THEN <<"primary", primary[1].terms[key]>>
    ELSE IF HasTerm(secondary, key) THEN <<"secondary", secondary[1].terms[key]>>
    ELSE IF HasTerm(fb, key) THEN <<"fallback", fb[1].terms[key]>>
    ELSE <<>>

\* translate(lang, key) of localize.ts
translate_localize(map, fb, lang, key, args) ==
    LET code == slice02(toLowerCase(lang))
        subcode == IF Len(lang) > 2 THEN toLowerCase(lang) ELSE <<>>
        found == FindTerm(Get(map, subcode), Get(map, code), fb, key)
    IN  IF found = <<>>
        THEN Thrown("Error")
        ELSE [Returned(Apply(found[2], args).value, found[1])
                 EXCEPT !.calls = Apply(found[2], args).calls]

\* term(lang, key) of index.ts and of the updaters revision
term_index(map, fb, lang, key, args) ==
    LET code == slice02(toLowerCase(lang))
        subcode == IF Len(lang) > 2 THEN toLowerCase(lang) ELSE <<>>
        found == FindTerm(Get(map, subcode), Get(map, code), fb, key)
    IN  IF found = <<>>
        THEN [Returned(key, "none") EXCEPT !.diagnostic = TRUE]
        ELSE [Returned(Apply(found[2], args).value, found[1])
                 EXCEPT !.calls = Apply(found[2], args).calls]

\* LocalizeController.getTranslationData(lang) of the core revision
getTranslationData(map, lang) ==
    LET locale == IntlLocale(replaceUnderscores(lang))
        language == toLowerCase(locale.language)
        region == toLowerCase(locale.region)
    IN  [ok |-> locale.ok,
         language |-> language,
         region |-> region,
         primary |-> Get(map, language \o <<"-">> \o region),
         secondary |-> Get(map, language)]

\* LocalizeController.term(key) of the core revision, for a controller whose
\* lang() is `lang`
term_core(map, fb, lang, key, args) ==
    LET data == getTranslationData(map, lang)
        found == FindTerm(data.primary, data.secondary, fb, key)
    IN  IF ~data.ok THEN Thrown("RangeError")
        ELSE IF found = <<>>
        THEN [Returned(key, "none") EXCEPT !.diagnostic = TRUE]
        ELSE [Returned(Apply(found[2], args).value, found[1])
                 EXCEPT !.calls = Apply(found[2], args).calls]

\* A dir() that returns the direction as written
dir_asWritten(hostDirValue, docDir) == IF hostDirValue # <<>> THEN hostDirValue ELSE docDir

\* `${host.dir || documentDirection}`.toLowerCase()
dir_(hostDirValue, docDir) ==
    toLowerCase(IF hostDirValue # <<>> THEN hostDirValue ELSE docDir)

\* `${host.lang || documentLanguage}`.toLowerCase()
lang_(hostLangValue, docLang) ==
    toLowerCase(IF hostLangValue # <<>> THEN hostLangValue ELSE docLang)

\* interface ExistsOptions { lang: string; includeFallback: boolean }, each
\* member optional: lang is <<>> when omitted and <<tag>> when given,
\* includeFallback is "omitted", "true" or "false".
ExistsOptions(lang, includeFallback) == [lang |-> lang, includeFallback |-> includeFallback]

\* An exists() that always checks the host's locale
existsLang_host(options, hostLangValue, docLang) == lang_(hostLangValue, docLang)

\* options.lang ?? this.lang()
existsLang(options, hostLangValue, docLang) ==
    IF options.lang # <<>> THEN options.lang[1] ELSE lang_(hostLangValue, docLang)

\* options = { includeFallback: false, ...options }
includeFallback(options) == options.includeFallback = "true"

\* An exists() that writes the default into the object it was given
optionsAfterExists_assigned(options) ==
    [options EXCEPT !.includeFallback = IF @ = "omitted" THEN "false" ELSE @]

\* The caller's options object after exists() returns: `options = { ... }`
\* binds the parameter to a new object and leaves the caller's alone
optionsAfterExists(options) == options

\* LocalizeController.exists(key, options) of the core revision, for a
\* controller whose host's lang is hostLangValue
exists(map, fb, docLang, hostLangValue, key, options) ==
    LET data == getTranslationData(map, existsLang(options, hostLangValue, docLang))
    IN  IF ~data.ok THEN Thrown("RangeError")
        ELSE IF \/ HasTerm(data.primary, key)
                \/ HasTerm(data.secondary, key)
                \/ includeFallback(options) /\ HasTerm(fb, key)
        THEN Returned(TRUE, "none")
        ELSE Returned(FALSE, "none")

\* The values number() is called with: a number, NaN, undefined, or a string
Num(n) == [type |-> "number", n |-> n, text |-> <<>>]
NaN == [type |-> "NaN", n |-> 0, text |-> <<>>]
Undefined == [type |-> "undefined", n |-> 0, text |-> <<>>]
Str(text) == [type |-> "string", n |-> 0, text |-> text]

DigitValue ==
    ("0" :> 0) @@ ("1" :> 1) @@ ("2" :> 2) @@ ("3" :> 3) @@ ("4" :> 4) @@
    ("5" :> 5) @@ ("6" :> 6) @@ ("7" :> 7) @@ ("8" :> 8) @@ ("9" :> 9)

\* StringToNumber of a string of decimal digits
RECURSIVE DecimalValue(_)
DecimalValue(s) ==
    IF s = <<>> THEN 0
    ELSE 10 * DecimalValue(SubSeq(s, 1, Len(s) - 1)) + DigitValue[s[Len(s)]]

\* s.trim()
trim(s) == SelectSeq(s, LAMBDA c : c # " ")

\* Number(value): undefined and a string that is no numeric literal give NaN,
\* the empty or blank string gives 0.  The strings modelled hold digits,
\* letters and blanks around them.
Number_(value) ==
    CASE value.type = "number" -> value
      [] value.type = "NaN" -> NaN
      [] value.type = "undefined" -> NaN
      [] OTHER -> IF trim(value.text) = <<>> THEN Num(0)
                  ELSE IF IsDigit(trim(value.text)) THEN Num(DecimalValue(trim(value.text)))
                  ELSE NaN

isNaN(value) == value.type = "NaN"

\* What number() gives: the empty string, the collaborator's output for a
\* locale and a number, or an exception
EmptyString == [outcome |-> "return", empty |-> TRUE, locale |-> <<>>, number |-> 0, error |-> ""]
Formatted(lang, n) ==
    [outcome |-> "return", empty |-> FALSE, locale |-> lang, number |-> n, error |-> ""]
FormatThrown(error) ==
    [outcome |-> "throw", empty |-> FALSE, locale |-> <<>>, number |-> 0, error |-> error]

\* new Intl.NumberFormat(lang, options).format(n): the constructor throws a
\* RangeError for a tag that is no language tag
NumberFormat(lang, n) ==
    IF IntlLocale(lang).ok THEN Formatted(lang, n) ELSE FormatThrown("RangeError")

\* number(lang, numberToFormat, options) / formatNumber(lang, number, options)
number(lang, numberToFormat) ==
    LET n == Number_(numberToFormat)
    IN  IF isNaN(n) THEN EmptyString ELSE NumberFormat(lang, n.n)

\* The lookup a caller makes with locale tag `lang`: translate(lang, key),
\* term(lang, key), or term(key) on a controller whose host's lang is `lang`.
term(rev, map, fb, docLang, lang, key, args) ==
    CASE rev = "localize" -> translate_localize(map, fb, lang, key, args)
      [] rev = "core" -> term_core(map, fb, lang_(lang, docLang), key, args)
      [] OTHER -> term_index(map, fb, lang, key, args)

----------------------------------------------------------------------------
\* Consumer set, locale signal, update broadcaster

\* A Set or the keys of a Map, in insertion order
Contains(seq, x) == \E i \in 1..Len(seq) : seq[i] = x
Add(seq, x) == IF Contains(seq, x) THEN seq ELSE Append(seq, x)

\* A delete that removes nothing
Delete_keeps(seq, x) == seq

Delete(seq, x) == SelectSeq(seq, LAMBDA y : y # x)

NoUpdates == [e \in Elements |-> 0]

\* document.documentElement.lang || navigator.language
readLanguage(rootLang) == IF rootLang # <<>> THEN rootLang ELSE NavigatorLanguage

\* A refresh that does not read the root's dir
readDirection_default(rootDir) == S_ltr

\* document.documentElement.dir || 'ltr'
readDirection(rootDir) == IF rootDir # <<>> THEN rootDir ELSE S_ltr

\* detectLanguage(el): the lang of the closest element that carries one, the
\* element itself or <html>
detectLanguage(el, elLang, rootLang) == IF elLang[el] # <<>> THEN elLang[el] ELSE rootLang

\* The updater closures of an element's controllers
UpdatersOf(el) == {<<el, i>> : i \in 1..controllers[el]}

RECURSIVE AddAll(_, _, _)
AddAll(seq, el, i) ==
    IF i > controllers[el] THEN seq ELSE AddAll(Add(seq, <<el, i>>), el, i + 1)

\* [...connectedElements.keys()].map(el => { if (typeof el.requestUpdate ===
\* 'function') el.requestUpdate(); }): index.ts, core revision, forceUpdate.
\* A requestUpdate() that raises ends the loop: nothing catches it.
RECURSIVE requestUpdates(_, _)
requestUpdates(els, counts) ==
    IF els = <<>>
    THEN [counts |-> counts, threw |-> FALSE]
    ELSE IF ~requestUpdateIsFunction[Head(els)]
         THEN requestUpdates(Tail(els), counts)
         ELSE IF requestUpdateThrows[Head(els)]
              THEN [counts |-> [counts EXCEPT ![Head(els)] = @ + 1], threw |-> TRUE]
              ELSE requestUpdates(Tail(els), [counts EXCEPT ![Head(els)] = @ + 1])

\* elementUpdaters.forEach(updater => updater()), updater = () =>
\* subject.requestUpdate(): a TypeError, or an error raised by requestUpdate,
\* ends the loop
RECURSIVE callUpdaters(_, _)
callUpdaters(updaters, counts) ==
    IF updaters = <<>>
    THEN [counts |-> counts, threw |-> FALSE]
    ELSE IF ~requestUpdateIsFunction[Head(updaters)[1]]
         THEN [counts |-> counts, threw |-> TRUE]
         ELSE IF requestUpdateThrows[Head(updaters)[1]]
              THEN [counts |-> [counts EXCEPT ![Head(updaters)[1]] = @ + 1],
                    threw |-> TRUE]
              ELSE callUpdaters(Tail(updaters),
                                [counts EXCEPT ![Head(updaters)[1]] = @ + 1])

\* The elements the loop of forceUpdate reaches: all of them, or those up to
\* the first whose requestUpdate() raises
RECURSIVE reached(_)
reached(els) ==
    IF els = <<>> THEN {}
    ELSE IF requestUpdateIsFunction[Head(els)] /\ requestUpdateThrows[Head(els)]
         THEN {Head(els)}
         ELSE {Head(els)} \cup reached(Tail(els))

\* connectedElements.set(el, detectLanguage(el)) for every key the loop of
\* forceUpdate reaches; closest('[lang]') of an element outside the document
\* does not find <html>
\* A forceUpdate that leaves the cached languages as they are
redetect_keeps(map, els, elLang, rootLang) == map

redetect(map, els, elLang, rootLang) ==
    [el \in DOMAIN map |->
        IF el \in els
        THEN detectLanguage(el, elLang, IF attached[el] THEN rootLang ELSE <<>>)
        ELSE map[el]]

(***************************************************************************)
(* update() of index.ts, of the updaters revision and of the core          *)
(* revision, forceUpdate() of localize.ts: the cached signal is refreshed, *)
(* then every consumer is asked to re-render.                              *)
(***************************************************************************)
update ==
    /\ IF revision = "localize"
       THEN UNCHANGED <<documentLanguage, documentDirection>>
       ELSE /\ documentDirection' = readDirection(htmlDir)
            /\ documentLanguage' = readLanguage(htmlLang)
    /\ connectedElementsMap' =
          [keys |-> connectedElementsMap.keys,
           value |-> redetect(connectedElementsMap.value,
                              reached(connectedElementsMap.keys), hostLang, htmlLang)]
    /\ UNCHANGED <<connectedElements, elementUpdaters>>

\* A broadcast whose loop runs before the two assignments
seenByTriggers_before(before, after) == before

\* The cached scalars a re-render trigger reads when update() calls it: the two
\* assignments come before the loop
seenByTriggers(before, after) == after

\* The scalars read by the triggers of the broadcast of this step
Signal ==
    seenByTriggers([language |-> documentLanguage, direction |-> documentDirection],
                   [language |-> documentLanguage', direction |-> documentDirection'])

\* What the broadcast invokes: counts per element, and whether it threw
Broadcast ==
    CASE revision = "localize" -> requestUpdates(connectedElementsMap.keys, NoUpdates)
      [] revision = "updaters" -> callUpdaters(elementUpdaters, NoUpdates)
      [] OTHER -> requestUpdates(connectedElements, NoUpdates)

----------------------------------------------------------------------------
\* Operations

\* registerTranslation(...translation)
registerTranslation(ts) ==
    /\ Len(ts) <= regsLeft
    /\ regsLeft' = regsLeft - Len(ts)
    /\ LET after == registerAll(revision, translations, fallback, ts)
       IN  /\ translations' = after.translations
           /\ fallback' = after.fallback
    /\ IF revision = "localize"
       THEN /\ UNCHANGED <<documentLanguage, documentDirection, connectedElements,
                           connectedElementsMap, elementUpdaters>>
            /\ updateCount' = NoUpdates
            /\ lastOp' = [op |-> "registerTranslation", args |-> ts, broadcasts |-> 0,
                          seen |-> <<>>, threw |-> FALSE, signal |-> Signal]
       ELSE /\ update
            /\ updateCount' = Broadcast.counts
            /\ lastOp' = [op |-> "registerTranslation", args |-> ts, broadcasts |-> 1,
                          seen |-> translations', threw |-> Broadcast.threw, signal |-> Signal]
    /\ UNCHANGED <<recordsQueued, revision, htmlLang, htmlDir, hostLang, hostDir, observerPending, controllers,
                   requestUpdateIsFunction, requestUpdateThrows,
                   framework, detached, attached>>

\* translate(lang, key, ...args) / term(lang, key, ...args) / controller.term(key, ...args)
Term(lang, key, args) ==
    /\ lastOp' = [op |-> "term", lang |-> lang, key |-> key, args |-> args,
                  result |-> term(revision, translations, fallback, documentLanguage, lang, key,
                                  args)]
    /\ updateCount' = NoUpdates
    /\ UNCHANGED <<recordsQueued, revision, translations, fallback, htmlLang, htmlDir, hostLang, hostDir,
                   documentLanguage, documentDirection, observerPending, controllers,
                   requestUpdateIsFunction, requestUpdateThrows,
                   framework, detached, attached, connectedElements,
                   connectedElementsMap, elementUpdaters, regsLeft>>

\* controller.exists(key, options) on a controller whose host's lang is `lang`
Exists(lang, key, options) ==
    /\ revision = "core"
    /\ lastOp' = [op |-> "exists", lang |-> lang, key |-> key, options |-> options,
                  optionsAfter |-> optionsAfterExists(options),
                  checked |-> existsLang(options, lang, documentLanguage),
                  result |-> exists(translations, fallback, documentLanguage, lang, key, options)]
    /\ updateCount' = NoUpdates
    /\ UNCHANGED <<recordsQueued, revision, translations, fallback, htmlLang, htmlDir, hostLang, hostDir,
                   documentLanguage, documentDirection, observerPending, controllers,
                   requestUpdateIsFunction, requestUpdateThrows,
                   framework, detached, attached, connectedElements,
                   connectedElementsMap, elementUpdaters, regsLeft>>

\* hostConnected() of every controller of the element; connectedCallback() of
\* the decorator (localize)
hostConnected(el) ==
    /\ attached' = [attached EXCEPT ![el] = TRUE]
    /\ CASE revision = "localize" ->
              /\ connectedElementsMap' =
                    [keys |-> Add(connectedElementsMap.keys, el),
                     value |-> (el :> detectLanguage(el, hostLang, htmlLang))
                               @@ connectedElementsMap.value]
              /\ UNCHANGED <<connectedElements, elementUpdaters>>
         [] revision = "updaters" ->
              /\ elementUpdaters' = AddAll(elementUpdaters, el, 1)
              /\ UNCHANGED <<connectedElements, connectedElementsMap>>
         [] OTHER ->
              /\ connectedElements' = Add(connectedElements, el)
              /\ UNCHANGED <<connectedElementsMap, elementUpdaters>>
    /\ detached' = [detached EXCEPT ![el] = FALSE]
    /\ updateCount' = NoUpdates
    /\ lastOp' = [op |-> "hostConnected", el |-> el]
    /\ UNCHANGED <<recordsQueued, revision, translations, fallback, htmlLang, htmlDir, hostLang, hostDir,
                   documentLanguage, documentDirection, observerPending, controllers,
                   requestUpdateIsFunction, requestUpdateThrows,
                   framework, regsLeft>>

\* hostDisconnected() of every controller of the element; disconnectedCallback()
\* of the decorator (localize)
hostDisconnected(el) ==
    /\ attached' = [attached EXCEPT ![el] = FALSE]
    /\ CASE revision = "localize" ->
              /\ connectedElementsMap' =
                    [keys |-> Delete(connectedElementsMap.keys, el),
                     value |-> [x \in DOMAIN connectedElementsMap.value \ {el} |->
                                    connectedElementsMap.value[x]]]
              /\ UNCHANGED <<connectedElements, elementUpdaters>>
         [] revision = "updaters" ->
              /\ elementUpdaters' = SelectSeq(elementUpdaters, LAMBDA u : u[1] # el)
              /\ UNCHANGED <<connectedElements, connectedElementsMap>>
         [] OTHER ->
              /\ connectedElements' = Delete(connectedElements, el)
              /\ UNCHANGED <<connectedElementsMap, elementUpdaters>>
    /\ detached' = [detached EXCEPT ![el] = @ \/ attached[el]]
    /\ updateCount' = NoUpdates
    /\ lastOp' = [op |-> "hostDisconnected", el |-> el]
    /\ UNCHANGED <<recordsQueued, revision, translations, fallback, htmlLang, htmlDir, hostLang, hostDir,
                   documentLanguage, documentDirection, observerPending, controllers,
                   requestUpdateIsFunction, requestUpdateThrows,
                   framework, regsLeft>>

\* document.documentElement.lang = value: the observer queues a record
setRootLang(value) ==
    /\ htmlLang' = value
    /\ recordsQueued < MaxRecords
    /\ observerPending' = TRUE
    /\ recordsQueued' = recordsQueued + 1
    /\ updateCount' = NoUpdates
    /\ lastOp' = [op |-> "setRootLang", value |-> value]
    /\ UNCHANGED <<revision, translations, fallback, htmlDir, hostLang, hostDir, documentLanguage,
                   documentDirection, controllers, requestUpdateIsFunction, requestUpdateThrows,
                   framework, detached, attached,
                   connectedElements, connectedElementsMap, elementUpdaters, regsLeft>>

\* document.documentElement.dir = value: a record is queued when the observer's
\* attributeFilter names dir (it does not in localize.ts)
setRootDir(value) ==
    /\ htmlDir' = value
    /\ IF revision # "localize"
       THEN /\ recordsQueued < MaxRecords
            /\ observerPending' = TRUE
            /\ recordsQueued' = recordsQueued + 1
       ELSE UNCHANGED <<observerPending, recordsQueued>>
    /\ updateCount' = NoUpdates
    /\ lastOp' = [op |-> "setRootDir", value |-> value]
    /\ UNCHANGED <<revision, translations, fallback, htmlLang, hostLang, hostDir, documentLanguage,
                   documentDirection, controllers, requestUpdateIsFunction, requestUpdateThrows,
                   framework, detached, attached,
                   connectedElements, connectedElementsMap, elementUpdaters, regsLeft>>

\* The MutationObserver delivers its records: one callback for all of them
observerCallback ==
    /\ observerPending
    /\ observerPending' = FALSE
    /\ recordsQueued' = 0
    /\ update
    /\ updateCount' = Broadcast.counts
    /\ lastOp' = [op |-> "update", cause |-> "observer", records |-> recordsQueued, broadcasts |-> 1,
                  threw |-> Broadcast.threw, signal |-> Signal]
    /\ UNCHANGED <<revision, translations, fallback, htmlLang, htmlDir, hostLang, hostDir,
                   controllers, requestUpdateIsFunction, requestUpdateThrows,
                   framework, detached, attached, regsLeft>>

\* update() / forceUpdate() called by the application; the updaters revision
\* does not export update
manualUpdate ==
    /\ revision # "updaters"
    /\ update
    /\ updateCount' = Broadcast.counts
    /\ lastOp' = [op |-> "update", cause |-> "manual", broadcasts |-> 1,
                  threw |-> Broadcast.threw, signal |-> Signal]
    /\ UNCHANGED <<recordsQueued, revision, translations, fallback, htmlLang, htmlDir, hostLang, hostDir,
                   observerPending, controllers, requestUpdateIsFunction, requestUpdateThrows,
                   framework, detached, attached, regsLeft>>

\* connectedElements.get(host) || '': the language the directives of lit.ts and
\* fast.ts pass to translate, formatDate and formatNumber
getLang(el) ==
    IF el \in DOMAIN connectedElementsMap.value THEN connectedElementsMap.value[el] ELSE <<>>

\* The locale tag a consumer's lookup hands to the matcher: this.host.lang ||
\* documentLanguage (index.ts, updaters revision), this.lang() (core revision),
\* the cached language (localize.ts)
lookupLang(el) ==
    CASE revision = "localize" -> getLang(el)
      [] revision = "core" -> lang_(hostLang[el], documentLanguage)
      [] OTHER -> IF hostLang[el] # <<>> THEN hostLang[el] ELSE documentLanguage

\* el.lang = value.  A <html>-rooted observer does not see it, except the
\* observer of localize.ts (subtree: true) when the element is in the light
\* DOM (`observed`).  The FAST decorator's setter also stores the value in
\* connectedElements and re-renders the element itself.
setHostLang(el, value, observed) ==
    /\ hostLang' = [hostLang EXCEPT ![el] = value]
    /\ IF revision = "localize"
       THEN /\ IF observed /\ attached[el]
               THEN /\ recordsQueued < MaxRecords
                    /\ observerPending' = TRUE
                    /\ recordsQueued' = recordsQueued + 1
               ELSE UNCHANGED <<observerPending, recordsQueued>>
            /\ IF framework[el] = "fast"
               THEN connectedElementsMap' =
                       [keys |-> Add(connectedElementsMap.keys, el),
                        value |-> (el :> value) @@ connectedElementsMap.value]
               ELSE UNCHANGED connectedElementsMap
       ELSE /\ ~observed
            /\ UNCHANGED <<observerPending, recordsQueued, connectedElementsMap>>
    /\ updateCount' = NoUpdates
    /\ lastOp' = [op |-> "setHostLang", el |-> el, value |-> value]
    /\ UNCHANGED <<hostDir, revision, translations, fallback, htmlLang, htmlDir, documentLanguage,
                   documentDirection, controllers, requestUpdateIsFunction,
                   requestUpdateThrows, framework, detached, attached, connectedElements,
                   elementUpdaters, regsLeft>>

\* controller.lang(): the revisions with a LocalizeController
ControllerLang(el) ==
    /\ revision # "localize"
    /\ lastOp' = [op |-> "lang", el |-> el, result |-> lang_(hostLang[el], documentLanguage)]
    /\ updateCount' = NoUpdates
    /\ UNCHANGED <<recordsQueued, revision, translations, fallback, htmlLang, htmlDir, hostLang, hostDir,
                   documentLanguage, documentDirection, observerPending, controllers,
                   requestUpdateIsFunction, requestUpdateThrows, framework, detached, attached,
                   connectedElements, connectedElementsMap, elementUpdaters, regsLeft>>

\* controller.term(key), or the translate directive rendered by the element
ControllerTerm(el, key) ==
    /\ lastOp' = [op |-> "controllerTerm", el |-> el, key |-> key,
                  locale |-> lookupLang(el),
                  result |-> IF revision = "core"
                             THEN term_core(translations, fallback, lookupLang(el), key, <<>>)
                             ELSE term(revision, translations, fallback, documentLanguage,
                                       lookupLang(el), key, <<>>)]
    /\ updateCount' = NoUpdates
    /\ UNCHANGED <<recordsQueued, revision, translations, fallback, htmlLang, htmlDir, hostLang, hostDir,
                   documentLanguage, documentDirection, observerPending, controllers,
                   requestUpdateIsFunction, requestUpdateThrows, framework, detached, attached,
                   connectedElements, connectedElementsMap, elementUpdaters, regsLeft>>

\* controller.number(numberToFormat), or the formatNumber directive rendered by
\* the element
ControllerNumber(el, value) ==
    /\ lastOp' = [op |-> "number", el |-> el, value |-> value,
                  locale |-> lookupLang(el),
                  result |-> number(lookupLang(el), value)]
    /\ updateCount' = NoUpdates
    /\ UNCHANGED <<recordsQueued, revision, translations, fallback, htmlLang, htmlDir, hostLang, hostDir,
                   documentLanguage, documentDirection, observerPending, controllers,
                   requestUpdateIsFunction, requestUpdateThrows, framework, detached, attached,
                   connectedElements, connectedElementsMap, elementUpdaters, regsLeft>>

\* el.dir = value: no observer of the revisions with a controller sees it
setHostDir(el, value) ==
    /\ revision # "localize"
    /\ hostDir' = [hostDir EXCEPT ![el] = value]
    /\ updateCount' = NoUpdates
    /\ lastOp' = [op |-> "setHostDir", el |-> el, value |-> value]
    /\ UNCHANGED <<recordsQueued, revision, translations, fallback, htmlLang, htmlDir, hostLang,
                   documentLanguage, documentDirection, observerPending, controllers,
                   requestUpdateIsFunction, requestUpdateThrows, framework, detached, attached,
                   connectedElements, connectedElementsMap, elementUpdaters, regsLeft>>

\* controller.dir(): the revisions with a LocalizeController
ControllerDir(el) ==
    /\ revision # "localize"
    /\ lastOp' = [op |-> "dir", el |-> el, result |-> dir_(hostDir[el], documentDirection)]
    /\ updateCount' = NoUpdates
    /\ UNCHANGED <<recordsQueued, revision, translations, fallback, htmlLang, htmlDir, hostLang,
                   hostDir, documentLanguage, documentDirection, observerPending, controllers,
                   requestUpdateIsFunction, requestUpdateThrows, framework, detached, attached,
                   connectedElements, connectedElementsMap, elementUpdaters, regsLeft>>

----------------------------------------------------------------------------
\* Specifications

InitCommon ==
    /\ revision \in Revisions
    /\ translations = <<>>
    /\ fallback = <<>>
    /\ htmlLang = <<>>
    /\ htmlDir = <<>>
    /\ hostLang = [e \in Elements |-> <<>>]
    /\ hostDir = [e \in Elements |-> <<>>]
    /\ documentLanguage = readLanguage(htmlLang)
    /\ documentDirection = readDirection(htmlDir)
    /\ observerPending = FALSE
    /\ recordsQueued = 0
    /\ attached = [e \in Elements |-> FALSE]
    /\ detached = [e \in Elements |-> FALSE]
    /\ connectedElements = <<>>
    /\ connectedElementsMap = [keys |-> <<>>, value |-> <<>>]
    /\ elementUpdaters = <<>>
    /\ updateCount = NoUpdates
    /\ lastOp = [op |-> "init"]

\* Registration and lookup
Init ==
    /\ InitCommon
    /\ revision \in LookupRevisions
    /\ controllers = [e \in Elements |-> 1]
    /\ requestUpdateIsFunction = [e \in Elements |-> TRUE]
    /\ requestUpdateThrows = [e \in Elements |-> FALSE]
    /\ framework = [e \in Elements |-> "lit"]
    /\ regsLeft = MaxRegs

Next ==
    \/ \E ts \in ArgLists(Min(MaxArgs, regsLeft)) : registerTranslation(ts)
    \/ \E lang \in LocaleTags, key \in Keys : Term(lang, key, <<>>)

Spec == Init /\ [][Next]_vars

\* Consumers, the locale signal and the broadcast
RootLangs == {<<>>, S_es_MX}
RootDirs == {<<>>, S_rtl}

InitBroadcast ==
    /\ InitCommon
    /\ controllers \in [Elements -> 1..MaxControllers]
    /\ requestUpdateIsFunction \in [Elements -> BOOLEAN]
    /\ requestUpdateThrows = [e \in Elements |-> FALSE]
    /\ framework = [e \in Elements |-> "lit"]
    /\ regsLeft = MaxBroadcastRegs

NextBroadcast ==
    \/ \E el \in Elements : hostConnected(el)
    \/ \E el \in Elements : hostDisconnected(el)
    \/ \E value \in RootLangs : setRootLang(value)
    \/ \E value \in RootDirs : setRootDir(value)
    \/ observerCallback
    \/ manualUpdate
    \/ \E ts \in ArgLists(Min(1, regsLeft)) : registerTranslation(ts)

SpecBroadcast == InitBroadcast /\ [][NextBroadcast]_vars

\* Consumers and their effective locale
MaxLocaleRegs == 1
HostLangs == {<<>>, S_EN_GB}
LocaleArgLists == {<<>>} \cup {<<t>> : t \in {c \in Catalogue : c.code = S_en_GB}}

\* FASTElement defines no requestUpdate: its re-render is updateLocalizedTerms
InitLocale ==
    /\ InitCommon
    /\ controllers = [e \in Elements |-> 1]
    /\ framework \in [Elements -> {"lit", "fast"}]
    /\ revision # "localize" => framework = [e \in Elements |-> "lit"]
    /\ requestUpdateIsFunction = [e \in Elements |-> framework[e] = "lit"]
    /\ requestUpdateThrows = [e \in Elements |-> FALSE]
    /\ regsLeft = MaxLocaleRegs

NextLocale ==
    \/ \E el \in Elements : hostConnected(el)
    \/ \E el \in Elements : hostDisconnected(el)
    \/ \E el \in Elements, value \in HostLangs, observed \in BOOLEAN :
          setHostLang(el, value, observed)
    \/ \E value \in RootLangs : setRootLang(value)
    \/ observerCallback
    \/ manualUpdate
    \/ \E ts \in LocaleArgLists : registerTranslation(ts)
    \/ \E el \in Elements : ControllerLang(el)
    \/ \E el \in Elements, key \in Keys : ControllerTerm(el, key)

SpecLocale == InitLocale /\ [][NextLocale]_vars

\* The locale signal: the observer, its delivery and the manual trigger, with
\* consumers whose requestUpdate is absent or raises.  A MutationObserver
\* callback is a microtask: once a record is queued the callback runs, whatever
\* else happens.
InitObserver ==
    /\ InitCommon
    /\ controllers = [e \in Elements |-> 1]
    /\ requestUpdateIsFunction \in [Elements -> BOOLEAN]
    /\ requestUpdateThrows \in [Elements -> BOOLEAN]
    /\ \A e \in Elements : requestUpdateThrows[e] => requestUpdateIsFunction[e]
    /\ framework = [e \in Elements |-> "lit"]
    /\ regsLeft = 0

NextObserver ==
    \/ \E el \in Elements : hostConnected(el)
    \/ \E el \in Elements : hostDisconnected(el)
    \/ \E value \in RootLangs : setRootLang(value)
    \/ \E value \in RootDirs : setRootDir(value)
    \/ observerCallback
    \/ manualUpdate

SpecObserver == InitObserver /\ [][NextObserver]_vars /\ WF_vars(observerCallback)

\* Existence checks: the core revision is the only one with exists()
MaxExistsRegs == 2
ExistsHostLangs == {<<>>, S_en_GB, S_de}
ExistsOptionLangs == {<<>>, <<S_es_MX>>, <<S_EN_GB>>, <<S_e>>}
ExistsOptionSet ==
    {ExistsOptions(l, f) : l \in ExistsOptionLangs, f \in {"omitted", "true", "false"}}

InitExists ==
    /\ InitCommon
    /\ revision = "core"
    /\ controllers = [e \in Elements |-> 1]
    /\ requestUpdateIsFunction = [e \in Elements |-> TRUE]
    /\ requestUpdateThrows = [e \in Elements |-> FALSE]
    /\ framework = [e \in Elements |-> "lit"]
    /\ regsLeft = MaxExistsRegs

NextExists ==
    \/ \E ts \in ArgLists(Min(1, regsLeft)) : registerTranslation(ts)
    \/ \E lang \in ExistsHostLangs, key \in Keys, options \in ExistsOptionSet :
          Exists(lang, key, options)

SpecExists == InitExists /\ [][NextExists]_vars

\* Number formatting by a consumer
NumberInputs ==
    {Num(5), NaN, Undefined, Str(<<>>), Str(<<" ", "4", "2">>), Str(<<"1", "2", "a">>)}

InitFormat ==
    /\ InitCommon
    /\ controllers = [e \in Elements |-> 1]
    /\ framework \in [Elements -> {"lit", "fast"}]
    /\ revision # "localize" => framework = [e \in Elements |-> "lit"]
    /\ requestUpdateIsFunction = [e \in Elements |-> framework[e] = "lit"]
    /\ requestUpdateThrows = [e \in Elements |-> FALSE]
    /\ regsLeft = 0

NextFormat ==
    \/ \E el \in Elements : hostConnected(el)
    \/ \E el \in Elements : hostDisconnected(el)
    \/ \E el \in Elements, value \in HostLangs, observed \in BOOLEAN :
          setHostLang(el, value, observed)
    \/ \E value \in RootLangs : setRootLang(value)
    \/ observerCallback
    \/ \E el \in Elements, value \in NumberInputs : ControllerNumber(el, value)

SpecFormat == InitFormat /\ [][NextFormat]_vars

\* Terms that are formatting functions, and the arguments of a lookup
MaxDispatchRegs == 2
DispatchCatalogue ==
    { Translation(S_en, ("greet" :> Formatter("Hi ")) @@ ("bye" :> Literal("Bye"))),
      Translation(S_en_GB, ("greet" :> Literal("Hiya"))),
      Translation(S_de, ("bye" :> Formatter(""))),
      Translation(S_es, ("greet" :> Formatter("Hola ")) @@ ("bye" :> Literal(""))) }
DispatchArgLists == {<<>>} \cup {<<t>> : t \in DispatchCatalogue}
DispatchTags == {S_en, S_EN_GB, S_de, S_es_MX}
TermArgs == {<<>>, <<"Ann">>, <<"Ann", "Bo">>}

InitDispatch ==
    /\ InitCommon
    /\ revision \in LookupRevisions
    /\ controllers = [e \in Elements |-> 1]
    /\ requestUpdateIsFunction = [e \in Elements |-> TRUE]
    /\ requestUpdateThrows = [e \in Elements |-> FALSE]
    /\ framework = [e \in Elements |-> "lit"]
    /\ regsLeft = MaxDispatchRegs

NextDispatch ==
    \/ \E ts \in DispatchArgLists : registerTranslation(ts)
    \/ \E lang \in DispatchTags, key \in Keys, args \in TermArgs : Term(lang, key, args)

SpecDispatch == InitDispatch /\ [][NextDispatch]_vars

\* Consumers and their effective direction: the revisions with dir()
DirValues == {<<>>, S_rtl, S_RTL}

InitDirection ==
    /\ InitCommon
    /\ revision # "localize"
    /\ controllers = [e \in Elements |-> 1]
    /\ requestUpdateIsFunction = [e \in Elements |-> TRUE]
    /\ requestUpdateThrows = [e \in Elements |-> FALSE]
    /\ framework = [e \in Elements |-> "lit"]
    /\ regsLeft = 0

NextDirection ==
    \/ \E el \in Elements : hostConnected(el)
    \/ \E el \in Elements, value \in DirValues : setHostDir(el, value)
    \/ \E value \in DirValues : setRootDir(value)
    \/ observerCallback
    \/ \E el \in Elements : ControllerDir(el)

SpecDirection == InitDirection /\ [][NextDirection]_vars

\* Lookups made while translations are registered and consumers attached
MaxReadOnlyRegs == 2
ReadOnlyArgLists ==
    {<<>>} \cup {<<t>> : t \in {c \in Catalogue : c.code \in {S_en_GB, S_EN_GB, S_es}}}
ReadOnlyTags == {S_en_GB, S_de}
ReadOnlyOptions == {ExistsOptions(<<>>, f) : f \in {"omitted", "true"}}

InitReadOnly ==
    /\ InitCommon
    /\ controllers = [e \in Elements |-> 1]
    /\ requestUpdateIsFunction = [e \in Elements |-> TRUE]
    /\ requestUpdateThrows = [e \in Elements |-> FALSE]
    /\ framework = [e \in Elements |-> "lit"]
    /\ regsLeft = MaxReadOnlyRegs

NextReadOnly ==
    \/ \E ts \in ReadOnlyArgLists : registerTranslation(ts)
    \/ \E el \in Elements : hostConnected(el)
    \/ \E value \in RootLangs : setRootLang(value)
    \/ observerCallback
    \/ \E lang \in ReadOnlyTags, key \in Keys : Term(lang, key, <<>>)
    \/ \E lang \in ReadOnlyTags, key \in Keys, options \in ReadOnlyOptions :
          Exists(lang, key, options)
    \/ \E el \in Elements : ControllerLang(el)
    \/ \E el \in Elements : ControllerDir(el)

SpecReadOnly == InitReadOnly /\ [][NextReadOnly]_vars

\* Lookups with the very tag a translation was registered under: bare language,
\* region-qualified in either case, '_' separator, script subtag
MaxRoundTripRegs == 2
RoundTripCatalogue ==
    { Translation(S_en, ("greet" :> Literal("Hi")) @@ ("bye" :> Literal("Bye"))),
      Translation(S_fil, ("greet" :> Literal("Kumusta"))),
      Translation(S_EN_GB, ("bye" :> Literal("Cheerio"))),
      Translation(S_en_GB_underscore, ("greet" :> Literal("Hiya"))),
      Translation(S_zh_Hans_CN, ("greet" :> Literal("Nihao"))) }
RoundTripArgLists == {<<>>} \cup {<<t>> : t \in RoundTripCatalogue}
RoundTripTags == {t.code : t \in RoundTripCatalogue}

InitRoundTrip ==
    /\ InitCommon
    /\ revision \in LookupRevisions
    /\ controllers = [e \in Elements |-> 1]
    /\ requestUpdateIsFunction = [e \in Elements |-> TRUE]
    /\ requestUpdateThrows = [e \in Elements |-> FALSE]
    /\ framework = [e \in Elements |-> "lit"]
    /\ regsLeft = MaxRoundTripRegs

NextRoundTrip ==
    \/ \E ts \in RoundTripArgLists : registerTranslation(ts)
    \/ \E lang \in RoundTripTags, key \in Keys : Term(lang, key, <<>>)

SpecRoundTrip == InitRoundTrip /\ [][NextRoundTrip]_vars

\* A broadcast during which a re-render trigger detaches another consumer

\* The registry of consumers and the lifecycle flags while a broadcast runs
LoopState ==
    [counts |-> NoUpdates, threw |-> FALSE,
     keys |-> CASE revision = "localize" -> connectedElementsMap.keys
                [] revision = "updaters" -> elementUpdaters
                [] OTHER -> connectedElements,
     value |-> connectedElementsMap.value,
     attached |-> attached, detached |-> detached]

\* victim.remove() called by a trigger: disconnectedCallback() of the decorator,
\* hostDisconnected() of every controller; nothing for an element outside the
\* document
disconnect(st, victim) ==
    IF ~st.attached[victim] THEN st
    ELSE [st EXCEPT
            !.keys = IF revision = "updaters"
                     THEN SelectSeq(@, LAMBDA u : u[1] # victim)
                     ELSE Delete(@, victim),
            !.value = [x \in DOMAIN @ \ {victim} |-> @[x]],
            !.attached[victim] = FALSE,
            !.detached[victim] = TRUE]


\* [...connectedElements.keys()].map(el => { ... el.requestUpdate(); }) when
\* the requestUpdate of `by` removes `victim` from the document: the array is
\* built before the loop, a deletion made by a trigger does not shorten it.  forceUpdate
\* stores connectedElements.set(el, detectLanguage(el)) before the call: for a
\* key the Map no longer holds, that adds it again.
RECURSIVE requestUpdatesDetaching(_, _, _, _)
requestUpdatesDetaching(els, st, by, victim) ==
    IF els = <<>> THEN st
    ELSE LET el == Head(els)
             st1 == IF revision = "localize"
                    THEN [st EXCEPT
                            !.keys = Add(@, el),
                            !.value = (el :> detectLanguage(el, hostLang,
                                              IF st.attached[el] THEN htmlLang ELSE <<>>))
                                      @@ @]
                    ELSE st
             st2 == [st1 EXCEPT !.counts[el] = @ + 1]
         IN  IF ~requestUpdateIsFunction[el]
             THEN requestUpdatesDetaching(Tail(els), st1, by, victim)
             ELSE IF requestUpdateThrows[el]
             THEN [st2 EXCEPT !.threw = TRUE]
             ELSE IF el = by /\ st2.attached[victim]
             THEN requestUpdatesDetaching(Tail(els), disconnect(st2, victim), by, victim)
             ELSE requestUpdatesDetaching(Tail(els), st2, by, victim)

\* elementUpdaters.forEach(updater => updater()) when the requestUpdate of `by`
\* removes `victim` from the document: Set.prototype.forEach walks the live
\* Set, an updater deleted before it is reached is not called
RECURSIVE callUpdatersDetaching(_, _, _, _)
callUpdatersDetaching(todo, st, by, victim) ==
    IF todo = <<>> THEN st
    ELSE LET el == Head(todo)[1]
             st2 == [st EXCEPT !.counts[el] = @ + 1]
         IN  IF ~requestUpdateIsFunction[el]
             THEN [st EXCEPT !.threw = TRUE]
             ELSE IF requestUpdateThrows[el]
             THEN [st2 EXCEPT !.threw = TRUE]
             ELSE IF el = by /\ st2.attached[victim]
             THEN callUpdatersDetaching(SelectSeq(Tail(todo), LAMBDA u : u[1] # victim),
                                        disconnect(st2, victim), by, victim)
             ELSE callUpdatersDetaching(Tail(todo), st2, by, victim)

BroadcastDetaching(by, victim) ==
    IF revision = "updaters"
    THEN callUpdatersDetaching(elementUpdaters, LoopState, by, victim)
    ELSE requestUpdatesDetaching(LoopState.keys, LoopState, by, victim)

\* The MutationObserver delivers its records and update() / forceUpdate() runs
\* while the requestUpdate of `by` is a function that removes `victim`
updateDetaching(by, victim) ==
    /\ by # victim
    /\ observerPending
    /\ observerPending' = FALSE
    /\ recordsQueued' = 0
    /\ IF revision = "localize"
       THEN UNCHANGED <<documentLanguage, documentDirection>>
       ELSE /\ documentDirection' = readDirection(htmlDir)
            /\ documentLanguage' = readLanguage(htmlLang)
    /\ LET after == BroadcastDetaching(by, victim)
       IN  /\ connectedElements' =
                 IF revision \in {"localize", "updaters"} THEN connectedElements
                 ELSE after.keys
           /\ connectedElementsMap' =
                 IF revision = "localize"
                 THEN [keys |-> after.keys, value |-> after.value]
                 ELSE connectedElementsMap
           /\ elementUpdaters' =
                 IF revision = "updaters" THEN after.keys ELSE elementUpdaters
           /\ attached' = after.attached
           /\ detached' = after.detached
           /\ updateCount' = after.counts
           /\ lastOp' = [op |-> "update", cause |-> "observer", records |-> recordsQueued,
                         broadcasts |-> 1, threw |-> after.threw, signal |-> Signal,
                         by |-> by, victim |-> victim]
    /\ UNCHANGED <<revision, translations, fallback, htmlLang, htmlDir, hostLang, hostDir,
                   controllers, requestUpdateIsFunction, requestUpdateThrows,
                   framework, regsLeft>>

InitDetach ==
    /\ InitCommon
    /\ controllers = [e \in Elements |-> 1]
    /\ requestUpdateIsFunction \in [Elements -> BOOLEAN]
    /\ requestUpdateThrows = [e \in Elements |-> FALSE]
    /\ framework = [e \in Elements |-> "lit"]
    /\ regsLeft = 0

NextDetach ==
    \/ \E el \in Elements : hostConnected(el)
    \/ \E el \in Elements : hostDisconnected(el)
    \/ \E value \in RootLangs : setRootLang(value)
    \/ observerCallback
    \/ \E by \in Elements, victim \in Elements : updateDetaching(by, victim)

SpecDetach == InitDetach /\ [][NextDetach]_vars

----------------------------------------------------------------------------
\* The vocabulary of the claims

\* The language and the region of a locale tag as the specification parses it:
\* '_' read as '-', standard locale-tag parsing, both in lower case; a tag that
\* does not parse is its own language and has no region.
ParsedLanguage(tag) ==
    LET locale == IntlLocale(replaceUnderscores(tag))
    IN  IF locale.ok THEN toLowerCase(locale.language) ELSE toLowerCase(tag)

ParsedRegion(tag) ==
    LET locale == IntlLocale(replaceUnderscores(tag))
    IN  IF locale.ok THEN toLowerCase(locale.region) ELSE <<>>

IsMalformed(tag) == ~IntlLocale(replaceUnderscores(tag)).ok

RegionCode(tag) == ParsedLanguage(tag) \o <<"-">> \o ParsedRegion(tag)

\* The registry entry for `code` defines `key`
Defines(map, code, key) == code \in DOMAIN map /\ key \in DOMAIN map[code].terms

RegionDefines(map, tag, key) ==
    ParsedRegion(tag) # <<>> /\ Defines(map, RegionCode(tag), key)

LanguageDefines(map, tag, key) == Defines(map, ParsedLanguage(tag), key)

FallbackDefines(fb, key) == fb # <<>> /\ key \in DOMAIN fb[1].terms

IsLookup == lastOp.op = "term"

----------------------------------------------------------------------------
\* Claims

\* C1 -- Tier ordering: for every locale tag with a region, if the registry
\* entry for language-region defines the key, term returns that entry's value,
\* whatever the bare-language entry and the fallback define.
C1_TierOrdering ==
    IsLookup /\ RegionDefines(translations, lastOp.lang, lastOp.key) =>
        /\ lastOp.result.outcome = "return"
        /\ lastOp.result.value = translations[RegionCode(lastOp.lang)].terms[lastOp.key].text

\* C2 -- Language tier: if no language-region entry defines the key and the
\* bare-language entry does, term returns the bare-language entry's value,
\* whatever the fallback defines.
C2_LanguageTier ==
    (/\ IsLookup
     /\ ~RegionDefines(translations, lastOp.lang, lastOp.key)
     /\ LanguageDefines(translations, lastOp.lang, lastOp.key)) =>
        /\ lastOp.result.outcome = "return"
        /\ lastOp.result.value =
              translations[ParsedLanguage(lastOp.lang)].terms[lastOp.key].text

\* C3 -- Fallback guarantee: if neither the language-region entry nor the
\* bare-language entry defines the key and the fallback does, term returns the
\* fallback's value.
C3_FallbackGuarantee ==
    (/\ IsLookup
     /\ ~RegionDefines(translations, lastOp.lang, lastOp.key)
     /\ ~LanguageDefines(translations, lastOp.lang, lastOp.key)
     /\ FallbackDefines(fallback, lastOp.key)) =>
        /\ lastOp.result.outcome = "return"
        /\ lastOp.result.value = fallback[1].terms[lastOp.key].text

\* The last translation of `ts` registered under `code` that supplies `key`:
\* <<>> when none does
RECURSIVE LastSupplied(_, _, _)
LastSupplied(ts, code, key) ==
    IF ts = <<>> THEN <<>>
    ELSE LET t == ts[Len(ts)]
         IN  IF toLowerCase(t.code) = code /\ key \in DOMAIN t.terms
             THEN <<t.terms[key]>>
             ELSE LastSupplied(SubSeq(ts, 1, Len(ts) - 1), code, key)

\* C4 -- Merge on register: a registerTranslation call leaves under every code
\* every key the entry held before and every key the call supplies, each with
\* the value of the most recent registration that supplied it.
C4_MergeOnRegister ==
    [][lastOp'.op = "registerTranslation" =>
          \A t \in Catalogue : \A key \in Keys :
             LET code == toLowerCase(t.code)
                 supplied == LastSupplied(lastOp'.args, code, key)
             IN  IF supplied # <<>>
                 THEN /\ Defines(translations', code, key)
                      /\ translations'[code].terms[key] = supplied[1]
                 ELSE Defines(translations, code, key) =>
                         /\ Defines(translations', code, key)
                         /\ translations'[code].terms[key] = translations[code].terms[key]
      ]_vars

\* C5 -- Fallback is fixed: the fallback becomes the first translation of the
\* first registerTranslation call that registers anything, and no later call
\* changes it.
C5_FallbackFixed ==
    [][/\ fallback # <<>> => fallback' = fallback
       /\ fallback = <<>> =>
             IF lastOp'.op = "registerTranslation" /\ lastOp'.args # <<>>
             THEN fallback' = <<lastOp'.args[1]>>
             ELSE fallback' = <<>>
      ]_vars

\* A later call registered other translations, one of them under the fallback's
\* own code, and the fallback is still the first translation.
C5_Witness ==
    /\ fallback # <<>>
    /\ lastOp.op = "registerTranslation"
    /\ Len(lastOp.args) = 2
    /\ lastOp.args[1] # fallback[1]
    /\ lastOp.args[2] # fallback[1]
    /\ toLowerCase(lastOp.args[2].code) = toLowerCase(fallback[1].code)

\* C6 -- Missing-term degradation: when no tier defines the key, term does not
\* throw, returns the key itself and emits a diagnostic, and changes nothing.
C6_MissingTermDegradation ==
    [][(/\ lastOp'.op = "term"
        /\ ~RegionDefines(translations, lastOp'.lang, lastOp'.key)
        /\ ~LanguageDefines(translations, lastOp'.lang, lastOp'.key)
        /\ ~FallbackDefines(fallback, lastOp'.key)) =>
          /\ lastOp'.result.outcome = "return"
          /\ lastOp'.result.value = lastOp'.key
          /\ lastOp'.result.diagnostic
          /\ UNCHANGED <<translations, fallback, documentLanguage, documentDirection,
                         connectedElements, connectedElementsMap, elementUpdaters>>
      ]_vars

\* C7 -- Underscore normalization: a lookup with a tag written with '_' gives
\* the result, through the same tier, of the lookup with the tag written with '-'.
C7_UnderscoreNormalization ==
    IsLookup =>
        lastOp.result = term(revision, translations, fallback, documentLanguage,
                             replaceUnderscores(lastOp.lang), lastOp.key, lastOp.args)

\* C8 -- Malformed locale tag: a lookup with a tag that does not parse raises no
\* error and resolves with the whole tag as the language and no region: the
\* bare-language entry, then the fallback, then the key.
C8_MalformedLocaleTag ==
    IsLookup /\ IsMalformed(lastOp.lang) =>
        LET found == FindTerm(<<>>, Get(translations, toLowerCase(lastOp.lang)),
                              fallback, lastOp.key)
        IN  /\ lastOp.result.outcome = "return"
            /\ lastOp.result.value = IF found = <<>> THEN lastOp.key ELSE Apply(found[2], lastOp.args).value

\* C9 -- Broadcast fan-out: a broadcast invokes the re-render trigger of each
\* attached consumer exactly once, however many controllers are bound to it, and
\* no trigger of a detached consumer.
C9_BroadcastFanOut ==
    lastOp.op \in {"registerTranslation", "update"} /\ lastOp.broadcasts = 1 =>
        \A el \in Elements :
            /\ attached[el] /\ requestUpdateIsFunction[el] => updateCount[el] = 1
            /\ ~attached[el] => updateCount[el] = 0

\* C10 -- Register-then-broadcast ordering: registerTranslation broadcasts exactly
\* once, before it returns and after every translation passed is in the registry,
\* so a trigger that calls term() sees the new terms.
C10_RegisterThenBroadcast ==
    lastOp.op = "registerTranslation" =>
        /\ lastOp.broadcasts = 1
        /\ lastOp.seen = translations
        /\ \A i \in 1..Len(lastOp.args) :
              toLowerCase(lastOp.args[i].code) \in DOMAIN lastOp.seen

----------------------------------------------------------------------------
\* Claims about consumers

\* The last operation was a broadcast
IsBroadcast == lastOp.op \in {"registerTranslation", "update"} /\ lastOp.broadcasts = 1

\* The Consumer Set holds an entry for the element
InConsumerSet(el) ==
    CASE revision = "localize" -> Contains(connectedElementsMap.keys, el)
      [] revision = "updaters" -> \E i \in 1..Len(elementUpdaters) : elementUpdaters[i][1] = el
      [] OTHER -> Contains(connectedElements, el)

EffectiveLocale(el, ambient) ==
    toLowerCase(IF hostLang[el] # <<>> THEN hostLang[el] ELSE ambient)

\* C12 -- Effective locale override: lang() and the locale term() resolves with
\* are the consumer's own lang, lowercased, when it is set, and the ambient
\* locale when it is not, computed at each access.  (In localize.ts the consumer
\* is a connected element and the ambient locale is <html lang>, read when no
\* notification is pending.)
C12_EffectiveLocaleOverride ==
    /\ lastOp.op = "lang" =>
          lastOp.result = EffectiveLocale(lastOp.el, documentLanguage)
    /\ lastOp.op = "controllerTerm" /\ revision # "localize" =>
          toLowerCase(lastOp.locale) = EffectiveLocale(lastOp.el, documentLanguage)
    /\ lastOp.op = "controllerTerm" /\ revision = "localize" /\ attached[lastOp.el] =>
          \/ hostLang[lastOp.el] = <<>> /\ observerPending
          \/ toLowerCase(lastOp.locale) = EffectiveLocale(lastOp.el, htmlLang)

\* C19 -- Consumer Set holds only attached consumers: whatever operations ran,
\* an element is in the Consumer Set only if it attached and has not detached.
C19_ConsumerSetOnlyAttached ==
    \A el \in Elements : InConsumerSet(el) => attached[el]

\* The cached locale is the one the root node gives now (localize.ts keeps no
\* documentLanguage)
LocaleSignalCurrent ==
    revision # "localize" =>
        documentLanguage = (IF htmlLang = <<>> THEN NavigatorLanguage ELSE htmlLang)

\* The cached direction is the one the root node gives now, 'ltr' when absent
DirectionSignalCurrent ==
    revision # "localize" =>
        documentDirection = (IF htmlDir = <<>> THEN S_ltr ELSE htmlDir)

\* C13 -- Root mutation is eventually propagated: once <html lang> has changed,
\* and given that the observer delivers, a broadcast follows after which the
\* cached locale is the root's and every attached consumer has been invoked.
C13_RootMutationPropagated ==
    observerPending ~>
        (/\ lastOp.op = "update" /\ lastOp.cause = "observer"
         /\ LocaleSignalCurrent
         /\ \A el \in Elements :
               attached[el] /\ requestUpdateIsFunction[el] => updateCount[el] >= 1)

\* C14 -- Coalesced observation delivers the latest state: the mutations queued
\* before the observer delivers make one notification and one broadcast, after
\* which the cached locale and direction are the root's latest values, or the
\* defaults when the attributes are absent.
C14_CoalescedObservation ==
    lastOp.op = "update" /\ lastOp.cause = "observer" =>
        /\ lastOp.broadcasts = 1
        /\ ~observerPending /\ recordsQueued = 0
        /\ LocaleSignalCurrent /\ DirectionSignalCurrent

\* One delivery carried two records, and the signal holds the values both left
C14_Witness ==
    /\ lastOp.op = "update" /\ lastOp.cause = "observer"
    /\ lastOp.records >= 2
    /\ htmlLang # <<>> /\ documentLanguage = htmlLang
    /\ htmlDir # <<>> /\ documentDirection = htmlDir

\* Every language cached by localize.ts is the one detectLanguage gives now
CachedLanguagesCurrent ==
    \A el \in DOMAIN connectedElementsMap.value :
        connectedElementsMap.value[el] =
           detectLanguage(el, hostLang, IF attached[el] THEN htmlLang ELSE <<>>)

\* C15 -- Manual trigger: update() / forceUpdate(), called at any time, refreshes
\* the cached locale state from the root node and invokes the trigger of every
\* attached consumer once.
C15_ManualTrigger ==
    lastOp.op = "update" /\ lastOp.cause = "manual" =>
        /\ ~lastOp.threw
        /\ IF revision = "localize"
           THEN CachedLanguagesCurrent
           ELSE LocaleSignalCurrent /\ DirectionSignalCurrent
        /\ \A el \in Elements :
              attached[el] /\ requestUpdateIsFunction[el] => updateCount[el] = 1

\* C17 -- Stale consumer is skipped: a broadcast that meets an entry whose
\* requestUpdate is not callable raises nothing and still invokes every other
\* attached consumer (none of which raises).
C17_StaleConsumerSkipped ==
    (/\ IsBroadcast
     /\ \E el \in Elements : attached[el] /\ ~requestUpdateIsFunction[el]
     /\ \A el \in Elements : attached[el] => ~requestUpdateThrows[el]) =>
        /\ ~lastOp.threw
        /\ \A el \in Elements :
              attached[el] /\ requestUpdateIsFunction[el] => updateCount[el] >= 1

\* The number of Consumer Set entries an element has
EntriesOf(el) ==
    CASE revision = "localize" ->
            Cardinality({i \in 1..Len(connectedElementsMap.keys) : connectedElementsMap.keys[i] = el})
      [] revision = "updaters" ->
            Cardinality({i \in 1..Len(elementUpdaters) : elementUpdaters[i][1] = el})
      [] OTHER ->
            Cardinality({i \in 1..Len(connectedElements) : connectedElements[i] = el})

\* C18 -- Attach and detach are idempotent: attach of an attached consumer
\* leaves exactly one Consumer Set entry for it and changes no entry, detach of
\* a consumer that is not attached changes nothing, and after a detach the
\* consumer has no entry.
C18_AttachDetachIdempotent ==
    [][\A el \in Elements :
          /\ (lastOp' = [op |-> "hostConnected", el |-> el] /\ attached[el]) =>
                /\ EntriesOf(el)' = 1
                /\ UNCHANGED <<connectedElements, connectedElementsMap.keys, elementUpdaters>>
          /\ (lastOp' = [op |-> "hostDisconnected", el |-> el] /\ ~attached[el]) =>
                UNCHANGED <<connectedElements, connectedElementsMap.keys, elementUpdaters>>
          /\ lastOp' = [op |-> "hostDisconnected", el |-> el] => EntriesOf(el)' = 0]_vars

\* C16 -- exists and the fallback tier: exists(key, options) returns true when
\* the language-region entry or the language entry of the checked locale
\* defines the key; when neither does, it returns true only if includeFallback
\* is true and the fallback defines the key; with includeFallback omitted it
\* returns false for a key that only the fallback defines.
C16_ExistsFallbackTier ==
    lastOp.op = "exists" =>
        LET inTiers == \/ RegionDefines(translations, lastOp.checked, lastOp.key)
                       \/ LanguageDefines(translations, lastOp.checked, lastOp.key)
            inFallback == /\ lastOp.options.includeFallback = "true"
                          /\ FallbackDefines(fallback, lastOp.key)
        IN  /\ lastOp.result.outcome = "return"
            /\ lastOp.result.value = (inTiers \/ inFallback)

\* C20 -- InvalidNumericInput: number(value) returns the empty string and
\* raises nothing for every value whose coercion to a number gives NaN; for a
\* numeric value it hands the number to the formatting collaborator with the
\* consumer's effective locale.
C20_InvalidNumericInput ==
    lastOp.op = "number" =>
        IF isNaN(Number_(lastOp.value))
        THEN lastOp.result = EmptyString
        ELSE /\ lastOp.result = NumberFormat(lastOp.locale, Number_(lastOp.value).n)
             /\ revision # "localize" =>
                   toLowerCase(lastOp.locale) = EffectiveLocale(lastOp.el, documentLanguage)
             /\ revision = "localize" /\ attached[lastOp.el] =>
                   \/ hostLang[lastOp.el] = <<>> /\ observerPending
                   \/ toLowerCase(lastOp.locale) = EffectiveLocale(lastOp.el, htmlLang)

----------------------------------------------------------------------------
\* Claims about codes, dispatch and direction

\* C21 -- Case-insensitive codes: every registry key is in lower case, so no
\* two entries differ only by letter case; a lookup gives the same outcome for
\* a tag and for the same tag in lower or upper case, and a tag whose
\* lower-cased form is a registry key finds that entry's term.
C21_CaseInsensitiveCodes ==
    /\ \A code \in DOMAIN translations : code = toLowerCase(code)
    /\ IsLookup =>
          /\ lastOp.result = term(revision, translations, fallback, documentLanguage,
                                  toLowerCase(lastOp.lang), lastOp.key, lastOp.args)
          /\ lastOp.result = term(revision, translations, fallback, documentLanguage,
                                  toUpperCase(lastOp.lang), lastOp.key, lastOp.args)
          /\ (/\ toLowerCase(lastOp.lang) \in DOMAIN translations
              /\ lastOp.key \in DOMAIN translations[toLowerCase(lastOp.lang)].terms
              /\ translations[toLowerCase(lastOp.lang)].terms[lastOp.key].text # "") =>
                 /\ lastOp.result.outcome = "return"
                 /\ lastOp.result.tier \in {"primary", "secondary"}
                 /\ lastOp.result.value =
                       translations[toLowerCase(lastOp.lang)].terms[lastOp.key].text

\* An entry registered as 'EN-GB' is found by a lookup made with 'en-GB'
C21_Witness ==
    /\ IsLookup /\ lastOp.lang = S_en_GB
    /\ toLowerCase(S_en_GB) \in DOMAIN translations
    /\ translations[toLowerCase(S_en_GB)].code = S_EN_GB
    /\ lastOp.result.outcome = "return" /\ lastOp.result.tier = "primary"

\* The value source a lookup resolved, by the tier it reports
ResolvedSource ==
    CASE lastOp.result.tier = "primary" ->
            translations[RegionCode(lastOp.lang)].terms[lastOp.key]
      [] lastOp.result.tier = "secondary" ->
            translations[ParsedLanguage(lastOp.lang)].terms[lastOp.key]
      [] OTHER -> fallback[1].terms[lastOp.key]

----------------------------------------------------------------------------
\* Claims about the order and the frame of operations

\* C24 -- Signal refresh precedes fan-out: in a broadcast of a revision with
\* the cached scalars, every re-render trigger that is invoked reads from them
\* the root node's current lang and dir (the defaults when absent), never the
\* values cached before the broadcast.
C24_RefreshPrecedesFanOut ==
    (/\ IsBroadcast
     /\ revision # "localize"
     /\ \E el \in Elements : updateCount[el] >= 1) =>
        /\ lastOp.signal.language = (IF htmlLang = <<>> THEN NavigatorLanguage ELSE htmlLang)
        /\ lastOp.signal.direction = (IF htmlDir = <<>> THEN S_ltr ELSE htmlDir)

\* The observer's broadcast invoked a trigger after the root's lang and dir changed
C24_Witness ==
    /\ lastOp.op = "update" /\ lastOp.cause = "observer" /\ lastOp.records >= 2
    /\ revision # "localize"
    /\ \E el \in Elements : updateCount[el] >= 1
    /\ htmlLang = S_es_MX /\ lastOp.signal.language = S_es_MX
    /\ htmlDir = S_rtl /\ lastOp.signal.direction = S_rtl

\* C25 -- Direction changes are observed: after a mutation of the root node's
\* dir alone, in a revision that caches the direction, the observer eventually
\* delivers a broadcast after which the cached direction is the root's and
\* every attached consumer has been asked to re-render.
C25_DirectionChangesObserved ==
    (/\ revision # "localize"
     /\ lastOp.op = "setRootDir" /\ recordsQueued = 1) ~>
        (/\ lastOp.op = "update" /\ lastOp.cause = "observer"
         /\ DirectionSignalCurrent
         /\ \A el \in Elements :
               attached[el] /\ requestUpdateIsFunction[el] => updateCount[el] >= 1)

\* C26 -- Language tier uses the whole primary subtag: a lookup answered by the
\* language tier is answered by the registry entry whose code is the tag's
\* primary language subtag, never by the entry of another language.
C26_WholePrimarySubtag ==
    IsLookup /\ lastOp.result.outcome = "return" /\ lastOp.result.tier = "secondary" =>
        /\ LanguageDefines(translations, lastOp.lang, lastOp.key)
        /\ lastOp.result.value =
              translations[ParsedLanguage(lastOp.lang)].terms[lastOp.key].text

\* C27 -- Lookups are read-only: exists, term, lang and dir leave every
\* registry entry, the fallback, the cached locale and direction and the
\* Consumer Set as they were, and exists leaves the caller's options object as
\* it was given.
C27_LookupsReadOnly ==
    [][lastOp'.op \in {"exists", "term", "lang", "dir"} =>
          /\ UNCHANGED <<translations, fallback, documentLanguage, documentDirection,
                         connectedElements, connectedElementsMap, elementUpdaters>>
          /\ lastOp'.op = "exists" => lastOp'.optionsAfter = lastOp'.options
      ]_vars

\* exists() ran with includeFallback omitted while an entry was registered and a
\* consumer attached
C27_Witness ==
    /\ lastOp.op = "exists" /\ lastOp.options.includeFallback = "omitted"
    /\ translations # <<>> /\ fallback # <<>>
    /\ \E el \in Elements : attached[el] /\ InConsumerSet(el)

\* C28 -- Registration frame and monotonicity: registerTranslation(t1..tn)
\* changes and adds only entries whose key is the lower-cased code of some ti,
\* leaves every other entry as it was and the Consumer Set unchanged, and no
\* operation removes an entry.
C28_RegistrationFrame ==
    [][/\ DOMAIN translations \subseteq DOMAIN translations'
       /\ lastOp'.op # "registerTranslation" => UNCHANGED translations
       /\ lastOp'.op = "registerTranslation" =>
             LET codes == {toLowerCase(lastOp'.args[i].code) : i \in 1..Len(lastOp'.args)}
             IN  /\ \A code \in DOMAIN translations \ codes :
                       translations'[code] = translations[code]
                 /\ DOMAIN translations' \ DOMAIN translations \subseteq codes
                 /\ UNCHANGED <<connectedElements, connectedElementsMap, elementUpdaters>>
      ]_vars

\* A translation was registered while the registry held an entry of another
\* code and a consumer was attached
C28_Witness ==
    /\ lastOp.op = "registerTranslation" /\ Len(lastOp.args) = 1
    /\ \E code \in DOMAIN translations : code # toLowerCase(lastOp.args[1].code)
    /\ \E el \in Elements : attached[el] /\ InConsumerSet(el)

\* The language detectLanguage gives for an attached element now: its own lang,
\* else the root node's
DetectedNow(el) == IF hostLang[el] # <<>> THEN hostLang[el] ELSE htmlLang

\* C29 -- Language-cache coherence (nearest-ancestor variant, localize.ts): the
\* language cached for an element when it connects is the one detected at that
\* moment; forceUpdate stores an element's re-detected language before it
\* invokes that element's trigger, and after a forceUpdate that completes the
\* language cached for every connected element is the one detected now.
C29_LanguageCacheCoherence ==
    revision = "localize" =>
        /\ lastOp.op = "hostConnected" =>
              connectedElementsMap.value[lastOp.el] = DetectedNow(lastOp.el)
        /\ lastOp.op = "update" =>
              \A el \in Elements :
                 attached[el] /\ (updateCount[el] >= 1 \/ ~lastOp.threw) =>
                    connectedElementsMap.value[el] = DetectedNow(el)

\* forceUpdate replaced a cached language: an element connected before the
\* root node got its lang, another with a lang of its own
C29_Witness ==
    /\ revision = "localize" /\ lastOp.op = "update"
    /\ htmlLang = S_es_MX
    /\ \E el \in Elements :
          attached[el] /\ hostLang[el] = <<>> /\ connectedElementsMap.value[el] = S_es_MX
    /\ \E el \in Elements :
          attached[el] /\ hostLang[el] = S_EN_GB /\ connectedElementsMap.value[el] = S_EN_GB

\* C30 -- exists locale override: exists(key, {lang: X}) checks locale X, with
\* the same outcome whatever the consumer's own lang and the ambient locale
\* are; with no lang in the options it checks the consumer's effective locale
\* and agrees with what term() finds for that consumer.
C30_ExistsLocaleOverride ==
    lastOp.op = "exists" =>
        IF lastOp.options.lang # <<>>
        THEN /\ lastOp.checked = lastOp.options.lang[1]
             /\ \A h \in ExistsHostLangs, d \in {NavigatorLanguage, S_es_MX, S_de} :
                   lastOp.result = exists(translations, fallback, d, h, lastOp.key,
                                          lastOp.options)
        ELSE LET own == lastOp.lang
                 found == term_core(translations, fallback,
                                    toLowerCase(IF own # <<>> THEN own ELSE documentLanguage),
                                    lastOp.key, <<>>)
             IN  /\ lastOp.checked =
                       toLowerCase(IF own # <<>> THEN own ELSE documentLanguage)
                 /\ lastOp.result.outcome = found.outcome
                 /\ lastOp.result.outcome = "return" =>
                       lastOp.result.value =
                          IF lastOp.options.includeFallback = "true"
                          THEN found.tier # "none"
                          ELSE found.tier \in {"primary", "secondary"}

\* exists() checked 'es-MX' and found the key for a consumer whose lang is 'en-GB'
C30_Witness ==
    /\ lastOp.op = "exists" /\ lastOp.options = ExistsOptions(<<S_es_MX>>, "omitted")
    /\ lastOp.lang = S_en_GB
    /\ lastOp.result.outcome = "return" /\ lastOp.result.value = TRUE

----------------------------------------------------------------------------
\* Claims about failures, coherence and round trips

\* C31 -- A failing consumer does not abort the broadcast: when the re-render
\* trigger of an attached consumer raises during a broadcast, the broadcast
\* raises nothing and the trigger of every other attached consumer is still
\* invoked.
C31_FailingConsumerDoesNotAbort ==
    (/\ IsBroadcast
     /\ \E el \in Elements :
           attached[el] /\ requestUpdateIsFunction[el] /\ requestUpdateThrows[el]) =>
        /\ ~lastOp.threw
        /\ \A el \in Elements :
              attached[el] /\ requestUpdateIsFunction[el] => updateCount[el] >= 1

\* C32 -- Fallback stays coherent with its registry entry: in every state the
\* fallback translation has the terms of the registry entry stored under the
\* fallback's lower-cased code.
C32_FallbackCoherent ==
    fallback # <<>> =>
        /\ toLowerCase(fallback[1].code) \in DOMAIN translations
        /\ translations[toLowerCase(fallback[1].code)].terms = fallback[1].terms


\* The key's definition in the highest tier of `tag` that defines it is the
\* empty-string literal; the fallback tier takes part when `withFallback`
EmptyInHighestTier(tag, key, withFallback) ==
    \/ /\ RegionDefines(translations, tag, key)
       /\ translations[RegionCode(tag)].terms[key] = Literal("")
    \/ /\ ~RegionDefines(translations, tag, key)
       /\ LanguageDefines(translations, tag, key)
       /\ translations[ParsedLanguage(tag)].terms[key] = Literal("")
    \/ /\ ~RegionDefines(translations, tag, key)
       /\ ~LanguageDefines(translations, tag, key)
       /\ withFallback
       /\ FallbackDefines(fallback, key)
       /\ fallback[1].terms[key] = Literal("")

\* C33 -- An empty-string value is a translation: when the highest tier that
\* defines the key defines it as the empty-string literal, term returns the
\* empty string (not a lower tier's value, not the key) and exists returns
\* true.
C33_EmptyStringIsATranslation ==
    /\ (IsLookup /\ EmptyInHighestTier(lastOp.lang, lastOp.key, TRUE)) =>
          /\ lastOp.result.outcome = "return"
          /\ lastOp.result.value = ""
    /\ (/\ lastOp.op = "exists"
        /\ EmptyInHighestTier(lastOp.checked, lastOp.key,
                              lastOp.options.includeFallback = "true")) =>
          /\ lastOp.result.outcome = "return"
          /\ lastOp.result.value = TRUE


\* C34 -- Register/lookup round trip: when the registry holds a translation
\* registered under the code C (bare language, region-qualified, with a script
\* subtag, any letter case, '-' or '_' separator) that defines the key, a
\* lookup of the key with the locale tag C returns that translation's value,
\* from the language-region tier or the language tier.
C34_RegisterLookupRoundTrip ==
    (/\ IsLookup
     /\ toLowerCase(lastOp.lang) \in DOMAIN translations
     /\ translations[toLowerCase(lastOp.lang)].code = lastOp.lang
     /\ lastOp.key \in DOMAIN translations[toLowerCase(lastOp.lang)].terms) =>
        /\ lastOp.result.outcome = "return"
        /\ lastOp.result.value =
              translations[toLowerCase(lastOp.lang)].terms[lastOp.key].text
        /\ lastOp.result.tier \in {"primary", "secondary"}


\* The place of the element's first entry in the Consumer Set, 0 when it has none
PlaceOf(el) ==
    LET seq == CASE revision = "localize" -> connectedElementsMap.keys
                 [] revision = "updaters" ->
                       [i \in 1..Len(elementUpdaters) |-> elementUpdaters[i][1]]
                 [] OTHER -> connectedElements
        at == {i \in 1..Len(seq) : seq[i] = el}
    IN  IF at = {} THEN 0 ELSE CHOOSE i \in at : \A j \in at : i <= j

\* C35 -- Detach inside a broadcast: when a trigger invoked during a broadcast
\* detaches a consumer the broadcast has not visited yet, that consumer's
\* trigger is not invoked in the rest of the broadcast and the consumer is not
\* in the Consumer Set when the broadcast ends.
C35_DetachInsideBroadcast ==
    [][\A by \in Elements, victim \in Elements :
          (/\ lastOp'.op = "update"
           /\ "victim" \in DOMAIN lastOp'
           /\ lastOp'.by = by
           /\ lastOp'.victim = victim
           /\ requestUpdateIsFunction[by]
           /\ attached[victim]
           /\ 0 < PlaceOf(by)
           /\ PlaceOf(by) < PlaceOf(victim)) =>
              /\ updateCount'[victim] = 0
              /\ ~InConsumerSet(victim)']_vars
====
